---- MODULE Spec2Model ----
(***************************************************************************)
(* OTIOExportTask: export of a Hiero sequence as an OTIO timeline.         *)
(*                                                                         *)
(* Time values that Hiero hands out as floats (sourceIn, sourceOut) are    *)
(* kept as integers counted in 1/FrameDiv of a frame; timeline positions,  *)
(* durations and transition positions are whole frames.  A frame rate is   *)
(* the pair <<num, den>> that framerate().toRational() returns.            *)
(***************************************************************************)
EXTENDS Integers, Sequences, FiniteSets, TLC

VARIABLES
    pc,             \* position of the call that is being followed
    pyMajor,        \* major version of the interpreter (round() differs: 2 or 3)
    rate_item,      \* get_rate: the item whose framerate() is resolved
    rate,           \* get_rate: the value returned
    sequence,       \* self._sequence: [framerate, tracks]; tracks holds the
                    \* host tracks that add_tracks has walked to their end
    includeTags,    \* self._preset.properties()["includeTags"]
    track,          \* add_tracks: the host items of the current track enumerated so far
    prev_out,       \* add_tracks: the local prev_out, [bound, value]
    otio_track,     \* the otio Track being built: [kind, children]
    otio_timeline,  \* self.otio_timeline.tracks
    trackitem,      \* add_clip / add_transition: the argument trackitem
    task            \* finishTask: [path, exportPath, exc, errors, written,
                    \*              finished, escaped]

vars == <<pc, pyMajor, rate_item, rate, sequence, includeTags, track, prev_out,
          otio_track, otio_timeline, trackitem, task>>

---------------------------------------------------------------------------
(* Bounds of the model *)

MaxNum    == 12   \* numerators 1..MaxNum of a frame rate
MaxDen    == 8    \* denominators 1..MaxDen of a frame rate
FrameDiv  == 2    \* sourceIn/sourceOut are counted in 1/FrameDiv frames
MaxSource == 3    \* |sourceIn|, |sourceOut| <= MaxSource (in 1/FrameDiv frames)
MaxSpeed  == 2    \* playback speeds -MaxSpeed..MaxSpeed
MaxGap    == 2    \* empty frames in front of a host item: 0..MaxGap
MaxLen    == 2    \* frames a host item covers: 1..MaxLen
MaxItems  == 3    \* host items of a sequence
MaxTracks == 2    \* host tracks of a sequence
MaxSpan   == 2    \* frames a transition reaches beyond the cut or into the item

---------------------------------------------------------------------------
(* Values *)

None == [type |-> "None"]

Abs(x) == IF x >= 0 THEN x ELSE -x

\* Python's int(x) on a float: truncation toward zero.
\* x is counted in 1/FrameDiv frames, the result in whole frames.
IntOf(x) == IF x >= 0 THEN x \div FrameDiv ELSE -((-x) \div FrameDiv)

RationalTime(value, r) == [value |-> value, rate |-> r]

TimeRange(start_time, duration) ==
    [type |-> "TimeRange", start_time |-> start_time, duration |-> duration]

\* otio.opentime.RationalTime() : value 0 at rate 1
DefaultTime == RationalTime(0, [kind |-> "int", v |-> 1])

---------------------------------------------------------------------------
(* get_rate *)

\* the hundredths cut off, not rounded
Truncate2(num, den, py) == (100 * num) \div den

\* Python's round(x, 2) for x = num/den > 0, as a count of hundredths.
\* A tie (x exactly on ...5 in the third decimal) goes to the even
\* neighbour under Python 3 and away from zero under Python 2.
Round2(num, den, py) ==
    LET q == (100 * num) \div den
        r == (100 * num) % den
    IN  IF 2 * r < den THEN q
        ELSE IF 2 * r > den THEN q + 1
        ELSE IF py = 3 THEN (IF q % 2 = 0 THEN q ELSE q + 1)
        ELSE q + 1

\* get_rate(item): int(rate) when float(num)/float(den) is an integer, else
\* round(rate, 2) (v counts hundredths when kind = "float").  For the
\* numerators and denominators of a frame rate the float quotient is an
\* integer exactly when den divides num.
get_rate(framerate, py) ==
    LET num == framerate[1]
        den == framerate[2]
    IN  IF num % den = 0
        THEN [kind |-> "int", v |-> num \div den]
        ELSE [kind |-> "float", v |-> Round2(num, den, py)]

---------------------------------------------------------------------------
(* get_clip_ranges *)

\* start always taken from sourceIn, whatever the playback direction
ClipRangesFromSourceIn(item, seq, py) ==
    LET source_rate == get_rate(IF ~item.hasVideo THEN seq.framerate
                                                  ELSE item.framerate, py)
    IN  [source_range |->
            TimeRange(RationalTime(IntOf(item.sourceIn), source_rate),
                      RationalTime(item.duration, source_rate)),
         available_range |->
            IF ~item.isOffline
            THEN TimeRange(RationalTime(item.startTime, source_rate),
                           RationalTime(item.mediaDuration, source_rate))
            ELSE None]

get_clip_ranges(item, seq, py) ==
    LET rate_source == IF ~item.hasVideo THEN seq.framerate ELSE item.framerate
        source_rate == get_rate(rate_source, py)
        start       == IF item.playbackSpeed < 0 THEN item.sourceOut
                                                 ELSE item.sourceIn
        source_range ==
            TimeRange(RationalTime(IntOf(start), source_rate),
                      RationalTime(item.duration, source_rate))
        available_range ==
            IF ~item.isOffline
            THEN TimeRange(RationalTime(item.startTime, source_rate),
                           RationalTime(item.mediaDuration, source_rate))
            ELSE None
    IN  [source_range |-> source_range, available_range |-> available_range]

---------------------------------------------------------------------------
(* add_gap *)

gap_length(item, prev) ==
    IF prev # 0 THEN item.timelineIn - prev - 1
                ELSE item.timelineIn - prev

add_gap(item, otrack, prev, seq, py) ==
    LET r   == get_rate(seq.framerate, py)
        gap == TimeRange(DefaultTime, RationalTime(gap_length(item, prev), r))
    IN  [otrack EXCEPT !.children =
            Append(@, [type |-> "Gap", source_range |-> gap])]

---------------------------------------------------------------------------
(* add_transition *)

KnownAlignments == {"kFadeIn", "kFadeOut", "kDissolve"}

NoTransition ==
    [alignment |-> "None", timelineIn |-> 0, timelineOut |-> 0,
     inTrackItemOut |-> 0, outTrackItemIn |-> 0]

\* list.insert(index, x) for index < 0: in front of the element that is
\* -index places from the end, at the front when the list is shorter.
InsertFromEnd(list, back, x) ==
    LET i == IF Len(list) - back > 0 THEN Len(list) - back ELSE 0
    IN  SubSeq(list, 1, i) \o <<x>> \o SubSeq(list, i + 1, Len(list))

\* the transitions the loop walks: the in-transition when it is a fade-in,
\* then the out-transition
SelectedTransitions(item) ==
    (IF item.inTransition.alignment = "kFadeIn"
        THEN <<item.inTransition>> ELSE <<>>)
    \o (IF item.outTransition.alignment # "None"
        THEN <<item.outTransition>> ELSE <<>>)

\* fade-out measured without the inclusive last frame
InOffsetFramesExclusive(item, transition) ==
    CASE transition.alignment = "kFadeIn"   -> 0
      [] transition.alignment = "kFadeOut"  ->
            item.timelineOut - transition.timelineIn
      [] transition.alignment = "kDissolve" ->
            transition.inTrackItemOut - transition.timelineIn

InOffsetFrames(item, transition) ==
    CASE transition.alignment = "kFadeIn"   -> 0
      [] transition.alignment = "kFadeOut"  ->
            1 + (item.timelineOut - transition.timelineIn)
      [] transition.alignment = "kDissolve" ->
            transition.inTrackItemOut - transition.timelineIn

OutOffsetFrames(item, transition) ==
    CASE transition.alignment = "kFadeIn"   ->
            1 + (transition.timelineOut - transition.timelineIn)
      [] transition.alignment = "kFadeOut"  -> 0
      [] transition.alignment = "kDissolve" ->
            transition.timelineOut - transition.outTrackItemIn

OtioTransition(item, transition) ==
    LET r == [kind |-> "raw", num |-> item.framerate[1],
                  den |-> item.framerate[2]]       \* framerate().toFloat()
    IN  [type            |-> "Transition",
         name            |-> transition.alignment,
         transition_type |-> "SMPTE_Dissolve",
         in_offset       |-> RationalTime(InOffsetFrames(item, transition), r),
         out_offset      |-> RationalTime(OutOffsetFrames(item, transition), r)]

RECURSIVE TransitionLoop(_, _, _)
TransitionLoop(transitions, item, children) ==
    IF transitions = <<>> THEN children
    ELSE LET transition == Head(transitions)
         IN  IF transition.alignment \notin KnownAlignments
             THEN children        \* kUnknown transition is ignored: return
             ELSE TransitionLoop(Tail(transitions), item,
                    IF transition.alignment = "kFadeIn"
                    THEN InsertFromEnd(children, 2,
                                       OtioTransition(item, transition))
                    ELSE Append(children, OtioTransition(item, transition)))

\* the unknown alignment exported like any other transition
AddTransitionKeepingUnknown(item, otrack) ==
    [otrack EXCEPT !.children =
        TransitionLoop(SelectedTransitions(item), item, @)
        \o (IF item.outTransition.alignment \notin KnownAlignments \cup {"None"}
            THEN <<[type |-> "Transition",
                    name |-> item.outTransition.alignment,
                    transition_type |-> "SMPTE_Dissolve",
                    in_offset  |-> DefaultTime,
                    out_offset |-> DefaultTime]>>
            ELSE <<>>)]

add_transition(item, otrack) ==
    [otrack EXCEPT !.children =
        TransitionLoop(SelectedTransitions(item), item, @)]

---------------------------------------------------------------------------
(* add_clip *)

\* an external reference built without asking isOffline()
MediaReferenceAlwaysExternal(item, available_range) ==
    [type            |-> "ExternalReference",
     available_range |-> available_range,
     target_url      |-> item.filename,
     name            |-> item.filename[2]]

MediaReference(item, available_range) ==
    IF ~item.isOffline
    THEN [type            |-> "ExternalReference",
          available_range |-> available_range,
          target_url      |-> item.filename,
          name            |-> item.filename[2]]
    ELSE [type |-> "MissingReference", available_range |-> None]

\* every retime exported as a LinearTimeWarp, a freeze included
TimeEffectsWarpOnly(item) ==
    IF item.playbackSpeed # 1
    THEN <<[type |-> "LinearTimeWarp", time_scalar |-> item.playbackSpeed]>>
    ELSE <<>>

TimeEffects(item) ==
    IF item.playbackSpeed # 1
    THEN IF item.playbackSpeed = 0
         THEN <<[type |-> "FreezeFrame"]>>
         ELSE <<[type |-> "LinearTimeWarp",
                 time_scalar |-> item.playbackSpeed]>>
    ELSE <<>>

Metadata(item, withTags) ==
    LET tags == IF withTags THEN {t \in item.tags : t.visible} ELSE {}
    IN  IF tags # {}
        THEN {[key |-> "Hiero", tags |-> {t.name : t \in tags}]}
        ELSE {}

OtioClip(item, seq, withTags, py) ==
    LET ranges == get_clip_ranges(item, seq, py)
    IN  [type            |-> "Clip",
         name            |-> item.name,
         source_range    |-> ranges.source_range,
         media_reference |-> MediaReference(item, ranges.available_range),
         effects         |-> TimeEffects(item),
         metadata        |-> Metadata(item, withTags)]

\* add_clip up to otio_track.append(otio_clip)
AppendClip(item, otrack, prev, seq, withTags, py) ==
    LET gapped == IF prev + 1 # item.timelineIn
                  THEN add_gap(item, otrack, prev, seq, py)
                  ELSE otrack
    IN  [gapped EXCEPT !.children =
            Append(@, OtioClip(item, seq, withTags, py))]

HasTransition(item) ==
    item.inTransition.alignment # "None" \/ item.outTransition.alignment # "None"

add_clip(item, otrack, prev, seq, withTags, py) ==
    LET appended == AppendClip(item, otrack, prev, seq, withTags, py)
    IN  IF HasTransition(item) THEN add_transition(item, appended)
                               ELSE appended

---------------------------------------------------------------------------
(* Host data *)

Framerates ==
    {<<n, d>> : n \in 1..MaxNum, d \in 1..MaxDen}
    \cup {<<24000, 1001>>, <<30000, 1001>>, <<60000, 1001>>}

ClipFramerates     == {<<24, 1>>, <<24000, 1001>>}
SequenceFramerates == {<<25, 1>>, <<30000, 1001>>}

Sequences0 == [framerate : SequenceFramerates, tracks : {<<>>}]

HostTags == {[name |-> "approved", visible |-> TRUE],
             [name |-> "hidden", visible |-> FALSE]}

\* a host track item; duration() of a track item is its timeline length
HostItem(name, isClip, tin, len, media, inT, outT) ==
    [name          |-> name,
     isClip        |-> isClip,
     timelineIn    |-> tin,
     timelineOut   |-> tin + len - 1,
     duration      |-> len,
     sourceIn      |-> media.sourceIn,
     sourceOut     |-> media.sourceOut,
     playbackSpeed |-> media.playbackSpeed,
     hasVideo      |-> media.hasVideo,
     isOffline     |-> media.isOffline,
     framerate     |-> media.framerate,
     startTime     |-> media.startTime,
     mediaDuration |-> media.mediaDuration,
     filename      |-> media.filename,
     tags          |-> media.tags,
     inTransition  |-> inT,
     outTransition |-> outT]

Media(sIn, sOut, speed, video, offline, fr, start) ==
    [sourceIn |-> sIn, sourceOut |-> sOut, playbackSpeed |-> speed,
     hasVideo |-> video, isOffline |-> offline, framerate |-> fr,
     startTime |-> start, mediaDuration |-> 48,
     filename |-> <<"/media", "shot.mov">>, tags |-> HostTags]

PlainMedia == Media(0, FrameDiv, 1, TRUE, FALSE, <<24, 1>>, 0)

Medias ==
    {Media(sIn, sOut, speed, video, offline, fr, start) :
        sIn \in -MaxSource..MaxSource, sOut \in -MaxSource..MaxSource,
        speed \in -MaxSpeed..MaxSpeed, video \in BOOLEAN, offline \in BOOLEAN,
        fr \in ClipFramerates, start \in {0, 7}}

TransitionOf(alignment, tin, tout, inOut, outIn) ==
    [alignment |-> alignment, timelineIn |-> tin, timelineOut |-> tout,
     inTrackItemOut |-> inOut, outTrackItemIn |-> outIn]

\* in-transitions of an item that starts at tin
InTransitions(tin) ==
    {NoTransition}
    \cup {TransitionOf("kFadeIn", tin, o, tin - 1, tin) :
            o \in (tin - 2)..(tin + MaxSpan)}
    \cup {TransitionOf(a, tin - 1, tin, tin - 1, tin) :
            a \in {"kDissolve", "kUnknown"}}

\* out-transitions of an item that ends at tout
OutTransitions(tout) ==
    {NoTransition}
    \cup {TransitionOf("kFadeOut", i, tout, tout, tout + 1) :
            i \in (tout - MaxSpan)..(tout + 2)}
    \cup {TransitionOf("kDissolve", i, o, tout, tout + 1) :
            i \in (tout - MaxSpan + 1)..(tout + 1),
            o \in tout..(tout + MaxSpan)}
    \cup {TransitionOf("kUnknown", tout, tout + 1, tout, tout + 1)}

EmptyTrack == [kind |-> "Video", name |-> "track", children |-> <<>>]

Unbound  == [bound |-> FALSE, value |-> 0]
Bound(n) == [bound |-> TRUE, value |-> n]

\* path: what resolvedExportPath() has to return; exportPath: the local of
\* finishTask (bound or not); exc: the exception the try block raised;
\* errors: the setError() calls; written: the files written; finished:
\* TaskBase.finishTask ran; escaped: the exception that left finishTask
IdleTask ==
    [path |-> <<>>, exportPath |-> [bound |-> FALSE, value |-> <<>>],
     exc |-> "None", errors |-> <<>>, written |-> <<>>,
     finished |-> FALSE, escaped |-> "None"]

---------------------------------------------------------------------------
(* Projections of a track *)

ClipsAndGaps(children) ==
    SelectSeq(children, LAMBDA c : c.type \in {"Clip", "Gap"})

TransitionsIn(children) ==
    SelectSeq(children, LAMBDA c : c.type = "Transition")

---------------------------------------------------------------------------
(* get_rate on its own *)

InitRate ==
    /\ pc = "get_rate"
    /\ pyMajor \in {2, 3}
    /\ rate_item \in Framerates
    /\ rate = None
    /\ sequence = [framerate |-> <<25, 1>>, tracks |-> <<>>]
    /\ includeTags = FALSE
    /\ track = <<>>
    /\ prev_out = Unbound
    /\ otio_track = EmptyTrack
    /\ otio_timeline = <<>>
    /\ trackitem = None
    /\ task = IdleTask

GetRate ==
    /\ pc = "get_rate"
    /\ rate' = get_rate(rate_item, pyMajor)
    /\ pc' = "returned"
    /\ UNCHANGED <<pyMajor, rate_item, sequence, includeTags, track, prev_out,
                   otio_track, otio_timeline, trackitem, task>>

SpecRate == InitRate /\ [][GetRate]_vars

---------------------------------------------------------------------------
(* add_clip on its own: one call, followed into add_transition *)

PriorClip == OtioClip(HostItem("prior", TRUE, 0, 1, PlainMedia,
                               NoTransition, NoTransition),
                      [framerate |-> <<25, 1>>, tracks |-> <<>>], FALSE, 3)

PriorGap == [type |-> "Gap",
             source_range |-> TimeRange(DefaultTime,
                                RationalTime(3, [kind |-> "int", v |-> 25]))]

PriorChildren == {<<>>, <<PriorClip>>, <<PriorGap, PriorClip>>}

InitClip ==
    /\ pc = "add_clip"
    /\ pyMajor = 3
    /\ rate_item = <<1, 1>>
    /\ rate = None
    /\ sequence \in Sequences0
    /\ track = <<>>
    /\ otio_timeline = <<>>
    /\ task = IdleTask
    /\ \E len \in 1..MaxLen :
        \/ /\ trackitem \in {HostItem("item", TRUE, 10, len, m,
                                      NoTransition, NoTransition) : m \in Medias}
           /\ includeTags = FALSE
           /\ otio_track = EmptyTrack
           /\ prev_out = Bound(9)
        \/ /\ trackitem \in {HostItem("item", TRUE, 10, len, PlainMedia, i, o) :
                                i \in InTransitions(10),
                                o \in OutTransitions(10 + len - 1)}
           /\ includeTags \in BOOLEAN
           /\ otio_track \in {[EmptyTrack EXCEPT !.children = c] :
                                c \in PriorChildren}
           /\ prev_out \in {Bound(8), Bound(9)}

AppendClipStep ==
    /\ pc = "add_clip"
    /\ otio_track' = AppendClip(trackitem, otio_track, prev_out.value,
                                sequence, includeTags, pyMajor)
    /\ pc' = IF HasTransition(trackitem) THEN "add_transition" ELSE "returned"
    /\ UNCHANGED <<pyMajor, rate_item, rate, sequence, includeTags, track,
                   prev_out, otio_timeline, trackitem, task>>

AddTransitionStep ==
    /\ pc = "add_transition"
    /\ otio_track' = add_transition(trackitem, otio_track)
    /\ pc' = "returned"
    /\ UNCHANGED <<pyMajor, rate_item, rate, sequence, includeTags, track,
                   prev_out, otio_timeline, trackitem, task>>

SpecClip == InitClip /\ [][AppendClipStep \/ AddTransitionStep]_vars

---------------------------------------------------------------------------
(* Claims about get_rate *)

Divides(den, num) == \E k \in 0..num : k * den = num

\* C9: for a frame rate num/den (den > 0) get_rate returns the exact integer
\* num/den when den divides num, and otherwise num/den rounded to 2 decimal
\* places: the returned count of hundredths is a nearest one to 100*num/den
\* (24000/1001 gives 23.98).
C9_RateResolved ==
    pc = "returned" /\ trackitem = None =>
        LET num == rate_item[1]
            den == rate_item[2]
        IN  /\ Divides(den, num) =>
                rate.kind = "int" /\ rate.v * den = num
            /\ ~Divides(den, num) =>
                /\ rate.kind = "float"
                /\ 2 * Abs(rate.v * den - 100 * num) <= den
            /\ rate_item = <<24000, 1001>> => rate.v = 2398

C9_Witness ==
    /\ pc = "returned"
    /\ rate_item = <<24000, 1001>>
    /\ rate = [kind |-> "float", v |-> 2398]

---------------------------------------------------------------------------
(* Claims about add_clip and add_transition *)

ClipAppended == trackitem # None /\ pc \in {"add_transition", "returned"}

\* the Clip that add_clip appended for trackitem
TheClip ==
    LET clips == SelectSeq(otio_track.children,
                    LAMBDA c : c.type = "Clip" /\ c.name = trackitem.name)
    IN  clips[1]

\* C5: the emitted Clip carries exactly one FreezeFrame effect when the
\* playback speed is 0, no effect when it is 1, and exactly one
\* LinearTimeWarp whose time scalar is the speed for any other speed,
\* negative speeds included.
C5_TimeEffects ==
    ClipAppended =>
        LET speed == trackitem.playbackSpeed
            fx    == TheClip.effects
        IN  /\ speed = 0 => Len(fx) = 1 /\ fx[1].type = "FreezeFrame"
            /\ speed = 1 => Len(fx) = 0
            /\ speed \notin {0, 1} =>
                /\ Len(fx) = 1
                /\ fx[1].type = "LinearTimeWarp"
                /\ fx[1].time_scalar = speed

C5_Witness ==
    /\ ClipAppended
    /\ trackitem.playbackSpeed < 0
    /\ Len(TheClip.effects) = 1
    /\ TheClip.effects[1].type = "LinearTimeWarp"

SourceStart == IF trackitem.playbackSpeed < 0 THEN trackitem.sourceOut
                                              ELSE trackitem.sourceIn

ResolvedRate ==
    IF trackitem.hasVideo THEN get_rate(trackitem.framerate, pyMajor)
                          ELSE get_rate(sequence.framerate, pyMajor)

\* C6 as stated: the source range starts at the item's source-out when the
\* playback speed is negative and at its source-in otherwise, lasts the
\* item's host duration, at the rate of the clip when the media has video
\* and of the sequence when it has not.
C6_StartIsSourceValue ==
    ClipAppended =>
        LET r == TheClip.source_range
        IN  /\ r.start_time.value * FrameDiv = SourceStart
            /\ r.duration.value = trackitem.duration
            /\ r.start_time.rate = ResolvedRate
            /\ r.duration.rate = ResolvedRate

\* C6 amended: the start is that source-out / source-in value cut down to
\* whole frames (truncated toward zero); duration and rate as stated.
C6_StartIsTruncatedSourceValue ==
    ClipAppended =>
        LET r == TheClip.source_range
            v == r.start_time.value
        IN  /\ SourceStart >= 0 => v >= 0
            /\ SourceStart <= 0 => v <= 0
            /\ Abs(v) * FrameDiv <= Abs(SourceStart)
            /\ Abs(SourceStart) < (Abs(v) + 1) * FrameDiv
            /\ r.duration.value = trackitem.duration
            /\ r.start_time.rate = ResolvedRate
            /\ r.duration.rate = ResolvedRate

C6_Witness ==
    /\ ClipAppended
    /\ trackitem.playbackSpeed < 0
    /\ ~trackitem.hasVideo
    /\ trackitem.sourceOut = FrameDiv + 1
    /\ trackitem.sourceIn = 0
    /\ TheClip.source_range.start_time.value = 1

\* C7: offline media gives a missing-media reference without an available
\* range; online media gives an external reference whose available range is
\* [media start time, media duration] at the rate of the source range.
C7_MediaReference ==
    ClipAppended =>
        LET ref == TheClip.media_reference
            r   == TheClip.source_range.start_time.rate
        IN  /\ trackitem.isOffline =>
                /\ ref.type = "MissingReference"
                /\ ref.available_range = None
            /\ ~trackitem.isOffline =>
                /\ ref.type = "ExternalReference"
                /\ ref.available_range.start_time.value = trackitem.startTime
                /\ ref.available_range.duration.value = trackitem.mediaDuration
                /\ ref.available_range.start_time.rate = r
                /\ ref.available_range.duration.rate = r

C7_Witness ==
    /\ ClipAppended
    /\ trackitem.isOffline
    /\ TheClip.media_reference.type = "MissingReference"

\* a fade lies within its item; a dissolve straddles the cut between the
\* inbound and the outbound neighbour
WellPlaced(item, t) ==
    CASE t.alignment \in {"kFadeIn", "kFadeOut"} ->
            /\ item.timelineIn <= t.timelineIn
            /\ t.timelineIn <= t.timelineOut
            /\ t.timelineOut <= item.timelineOut
      [] t.alignment = "kDissolve" ->
            /\ t.timelineIn <= t.inTrackItemOut
            /\ t.inTrackItemOut < t.outTrackItemIn
            /\ t.outTrackItemIn <= t.timelineOut
      [] OTHER -> FALSE

ExpectedOffsets(item, t) ==
    CASE t.alignment = "kFadeIn" ->
            <<0, 1 + (t.timelineOut - t.timelineIn)>>
      [] t.alignment = "kFadeOut" ->
            <<1 + (item.timelineOut - t.timelineIn), 0>>
      [] t.alignment = "kDissolve" ->
            <<t.inTrackItemOut - t.timelineIn,
              t.timelineOut - t.outTrackItemIn>>

Emitted(t) ==
    \E i \in 1..Len(otio_track.children) :
        LET c == otio_track.children[i]
        IN  /\ c.type = "Transition"
            /\ c.name = t.alignment
            /\ <<c.in_offset.value, c.out_offset.value>>
                    = ExpectedOffsets(trackitem, t)
            /\ WellPlaced(trackitem, t) =>
                    c.in_offset.value >= 0 /\ c.out_offset.value >= 0

TransitionsDone ==
    trackitem # None /\ pc = "returned" /\ HasTransition(trackitem)

\* C3: every selected transition is emitted with the offsets of its
\* alignment (fade-in: 0 and 1 + its own length; fade-out: 1 + item out -
\* transition in, and 0; dissolve: inbound out - transition in, and
\* transition out - outbound in), and both offsets are non-negative when the
\* transition lies within its item or straddles the cut.
C3_Offsets ==
    TransitionsDone =>
        LET i == trackitem.inTransition
            o == trackitem.outTransition
        IN  /\ i.alignment = "kFadeIn" => Emitted(i)
            /\ o.alignment \in KnownAlignments => Emitted(o)

C3_Witness ==
    /\ TransitionsDone
    /\ trackitem.inTransition.alignment = "kFadeIn"
    /\ trackitem.outTransition.alignment = "kFadeOut"
    /\ trackitem.outTransition.timelineIn = trackitem.timelineOut - 1
    /\ Emitted(trackitem.outTransition)
    /\ Len(TransitionsIn(otio_track.children)) = 2

HasUnknown(item) ==
    \/ item.inTransition.alignment \notin KnownAlignments \cup {"None"}
    \/ item.outTransition.alignment \notin KnownAlignments \cup {"None"}

KnownSelected(item) ==
    (IF item.inTransition.alignment = "kFadeIn" THEN 1 ELSE 0)
    + (IF item.outTransition.alignment \in KnownAlignments THEN 1 ELSE 0)

\* C4: add_transition on an item with a transition of unrecognised
\* alignment adds no Transition for it (only the recognised, selected ones
\* are added, none after it), returns normally, and leaves the Clip/Gap
\* sequence of the track as it was.
C4_UnknownDropped ==
    [][pc = "add_transition" /\ HasUnknown(trackitem) =>
        /\ pc' = "returned"
        /\ ClipsAndGaps(otio_track'.children) = ClipsAndGaps(otio_track.children)
        /\ Len(TransitionsIn(otio_track'.children))
             = Len(TransitionsIn(otio_track.children)) + KnownSelected(trackitem)
        /\ \A k \in 1..Len(otio_track'.children) :
             otio_track'.children[k].type = "Transition" =>
                 otio_track'.children[k].name \in KnownAlignments]_vars

C4_Witness ==
    /\ TransitionsDone
    /\ trackitem.inTransition.alignment = "kFadeIn"
    /\ trackitem.outTransition.alignment = "kUnknown"
    /\ Len(TransitionsIn(otio_track.children)) = 1
    /\ Len(ClipsAndGaps(otio_track.children)) = 3

---------------------------------------------------------------------------
(* startTask: create_OTIO and add_tracks, one host item at a time *)

RECURSIVE SumLen(_)
SumLen(ts) == IF ts = <<>> THEN 0 ELSE Len(Head(ts)) + SumLen(Tail(ts))

ItemsWalked == SumLen(sequence.tracks) + Len(track)

LastHostOut == IF track = <<>> THEN -1 ELSE track[Len(track)].timelineOut

\* the previous host item hands a dissolve over to the next one
DissolvePending ==
    /\ track # <<>>
    /\ track[Len(track)].isClip
    /\ track[Len(track)].outTransition.alignment = "kDissolve"

\* the host items that can follow on the current track; name() of an item
\* is its place in the track.  An item carries at most one transition of its
\* own here (items with two are followed in SpecClip).
NextClipItems ==
    LET name == Len(track) + 1
    IN  IF DissolvePending
        THEN UNION {
               {HostItem(name, TRUE, LastHostOut + 1, len, PlainMedia,
                         track[Len(track)].outTransition, o) :
                  o \in {NoTransition,
                         TransitionOf("kFadeOut", LastHostOut + len,
                                      LastHostOut + len, LastHostOut + len,
                                      LastHostOut + len + 1)}} :
               len \in 1..MaxLen}
        ELSE UNION {
               {HostItem(name, TRUE, tin, len, PlainMedia, io[1], io[2]) :
                  io \in {<<NoTransition, NoTransition>>,
                          <<TransitionOf("kFadeIn", tin, tin, tin - 1, tin),
                            NoTransition>>,
                          <<NoTransition,
                            TransitionOf("kFadeOut", tin + len - 1,
                                tin + len - 1, tin + len - 1, tin + len)>>,
                          <<NoTransition,
                            TransitionOf("kDissolve", tin + len - 1,
                                tin + len, tin + len - 1, tin + len)>>}} :
               tin \in (LastHostOut + 1)..(LastHostOut + 1 + MaxGap),
               len \in 1..MaxLen}

\* host items whose source() is no hiero.core.Clip
NextOtherItems ==
    IF DissolvePending THEN {}
    ELSE {HostItem(Len(track) + 1, FALSE, tin, 1, PlainMedia,
                   NoTransition, NoTransition) :
            tin \in (LastHostOut + 1)..(LastHostOut + 1 + MaxGap)}

Init ==
    /\ pc = "startTask"
    /\ pyMajor = 3
    /\ rate_item = <<1, 1>>
    /\ rate = None
    /\ sequence = [framerate |-> <<25, 1>>, tracks |-> <<>>]
    /\ includeTags = FALSE
    /\ track = <<>>
    /\ prev_out = Unbound
    /\ otio_track = EmptyTrack
    /\ otio_timeline = <<>>
    /\ trackitem = None
    /\ task = IdleTask

create_OTIO ==
    /\ pc = "startTask"
    /\ otio_timeline' = <<>>
    /\ pc' = "add_tracks"
    /\ UNCHANGED <<pyMajor, rate_item, rate, sequence, includeTags, track,
                   prev_out, otio_track, trackitem, task>>

\* for track in self._sequence.items(): a new otio Track
NextTrack ==
    /\ pc = "add_tracks"
    /\ Len(sequence.tracks) < MaxTracks
    /\ \E kind \in {"Audio", "Video"} :
        otio_track' = [kind |-> kind, name |-> "track", children |-> <<>>]
    /\ track' = <<>>
    /\ pc' = "track_items"
    /\ UNCHANGED <<pyMajor, rate_item, rate, sequence, includeTags, prev_out,
                   otio_timeline, trackitem, task>>

\* for index, trackitem in enumerate(track): an item that is a Clip
TrackItemClip ==
    /\ pc = "track_items"
    /\ ItemsWalked < MaxItems
    /\ \E item \in NextClipItems :
        LET index == Len(track)
            prev  == IF index = 0
                     THEN Bound(IF item.timelineIn > 0 THEN 0 ELSE -1)
                     ELSE prev_out
        IN  /\ track' = Append(track, item)
            /\ IF prev.bound
               THEN /\ otio_track' = add_clip(item, otio_track, prev.value,
                                             sequence, includeTags, pyMajor)
                    /\ prev_out' = Bound(item.timelineOut)
                    /\ pc' = pc
               ELSE \* prev_out is read before any assignment
                    /\ pc' = "UnboundLocalError"
                    /\ UNCHANGED <<otio_track, prev_out>>
    /\ UNCHANGED <<pyMajor, rate_item, rate, sequence, includeTags,
                   otio_timeline, trackitem, task>>

\* an item that is no Clip is passed over
TrackItemOther ==
    /\ pc = "track_items"
    /\ ItemsWalked < MaxItems
    /\ \E item \in NextOtherItems : track' = Append(track, item)
    /\ UNCHANGED <<pc, pyMajor, rate_item, rate, sequence, includeTags,
                   prev_out, otio_track, otio_timeline, trackitem, task>>

\* self.otio_timeline.tracks.append(otio_track)
EndTrack ==
    /\ pc = "track_items"
    /\ otio_timeline' = Append(otio_timeline, otio_track)
    /\ sequence' = [sequence EXCEPT !.tracks = Append(@, track)]
    /\ pc' = "add_tracks"
    /\ UNCHANGED <<pyMajor, rate_item, rate, includeTags, track, prev_out,
                   otio_track, trackitem, task>>

\* the sequence has no further track: add_tracks returns
TracksDone ==
    /\ pc = "add_tracks"
    /\ pc' = "done"
    /\ UNCHANGED <<pyMajor, rate_item, rate, sequence, includeTags, track,
                   prev_out, otio_track, otio_timeline, trackitem, task>>

Next ==
    \/ create_OTIO
    \/ NextTrack
    \/ TrackItemClip
    \/ TrackItemOther
    \/ EndTrack
    \/ TracksDone

Spec == Init /\ [][Next]_vars

---------------------------------------------------------------------------
(* finishTask *)

\* an export path is <<directory, base name, extension>>, with more
\* segments once something is appended to it
ExportPaths ==
    {<<d, b, e>> : d \in {"/out", "/out/seq", ""},
                   b \in {"cut", "edit"},
                   e \in {".otio", ".OTIO", ".Otio", ".xml", ""}}

Causes == {"IOError", "OSError"}

\* str.lower() of a path segment (the other segments are lower case)
Lower(segment) ==
    CASE segment = ".OTIO" -> ".otio"
      [] segment = ".Otio" -> ".otio"
      [] OTHER -> segment

EndsWithOtio(path) == Lower(path[Len(path)]) = ".otio"

\* lines 301-304: the resolved path, ".otio" added when it does not end so
WithExtension(path) ==
    IF ~EndsWithOtio(path) THEN Append(path, ".otio") ELSE path

InitFinish ==
    /\ pc = "finishTask"
    /\ pyMajor = 3
    /\ rate_item = <<1, 1>>
    /\ rate = None
    /\ sequence = [framerate |-> <<25, 1>>, tracks |-> <<>>]
    /\ includeTags = FALSE
    /\ track = <<>>
    /\ prev_out = Unbound
    /\ otio_track = EmptyTrack
    /\ otio_timeline = <<>>
    /\ trackitem = None
    /\ \E path \in ExportPaths : task = [IdleTask EXCEPT !.path = path]

FinishFrame == <<pyMajor, rate_item, rate, sequence, includeTags, track,
                 prev_out, otio_track, otio_timeline, trackitem>>

\* exportPath = self.resolvedExportPath(), and the extension check
ResolveExportPath ==
    /\ pc = "finishTask"
    /\ \/ /\ task' = [task EXCEPT
                        !.exportPath = Bound(WithExtension(task.path))]
          /\ pc' = "makeDirs"
       \/ \E e \in Causes :
            /\ task' = [task EXCEPT !.exc = e]
            /\ pc' = "except"
    /\ UNCHANGED FinishFrame

\* util.filesystem.makeDirs(dirname)
MakeDirs ==
    /\ pc = "makeDirs"
    /\ \/ /\ pc' = "write_to_file"
          /\ UNCHANGED task
       \/ \E e \in Causes :
            /\ task' = [task EXCEPT !.exc = e]
            /\ pc' = "except"
    /\ UNCHANGED FinishFrame

\* otio.adapters.write_to_file(self.otio_timeline, exportPath)
WriteToFile ==
    /\ pc = "write_to_file"
    /\ \/ /\ task' = [task EXCEPT
                        !.written = Append(@, task.exportPath.value)]
          /\ pc' = "base_finishTask"
       \/ \E e \in Causes :
            /\ task' = [task EXCEPT !.exc = e]
            /\ pc' = "except"
    /\ UNCHANGED FinishFrame

\* except Exception as e: self.setError(... f=exportPath, e=e)
ExceptHandler ==
    /\ pc = "except"
    /\ IF task.exportPath.bound
       THEN /\ task' = [task EXCEPT
                          !.errors = Append(@, [f |-> task.exportPath.value,
                                                e |-> task.exc])]
            /\ pc' = "base_finishTask"
       ELSE \* exportPath is read before any assignment
            /\ task' = [task EXCEPT !.escaped = "UnboundLocalError"]
            /\ pc' = "escaped"
    /\ UNCHANGED FinishFrame

\* hiero.core.TaskBase.finishTask(self)
BaseFinishTask ==
    /\ pc = "base_finishTask"
    /\ task' = [task EXCEPT !.finished = TRUE]
    /\ pc' = "finished"
    /\ UNCHANGED FinishFrame

NextFinish ==
    \/ ResolveExportPath
    \/ MakeDirs
    \/ WriteToFile
    \/ ExceptHandler
    \/ BaseFinishTask

SpecFinish == InitFinish /\ [][NextFinish]_vars

---------------------------------------------------------------------------
(* Claims about add_tracks *)

Qualifying(host) == SelectSeq(host, LAMBDA it : it.isClip)

\* the host tracks walked so far, each with the children of its otio Track
TrackPairs ==
    {<<sequence.tracks[k], otio_timeline[k].children>> :
        k \in 1..Len(otio_timeline)}
    \cup (IF pc = "track_items" THEN {<<track, otio_track.children>>} ELSE {})

ClipPlace(cg, name) ==
    CHOOSE i \in 1..Len(cg) : cg[i].type = "Clip" /\ cg[i].name = name

HasClip(cg, name) ==
    \E i \in 1..Len(cg) : cg[i].type = "Clip" /\ cg[i].name = name

GapOf(cg, n) ==
    /\ Len(cg) = 1
    /\ cg[1].type = "Gap"
    /\ cg[1].source_range.duration.value = n

\* C1: between the Clips of two consecutive qualifying items A, B of a track
\* (B.timelineIn > A.timelineOut >= 0) there is a Gap if and only if
\* B.timelineIn # A.timelineOut + 1, there is exactly one, and it lasts
\* B.timelineIn - A.timelineOut - 1 frames.
C1_GapIsDiscontinuity ==
    \A pair \in TrackPairs :
        LET q  == Qualifying(pair[1])
            cg == ClipsAndGaps(pair[2])
        IN  \A k \in 1..(Len(q) - 1) :
                LET A == q[k]
                    B == q[k + 1]
                IN  HasClip(cg, A.name) /\ HasClip(cg, B.name) =>
                        LET between == SubSeq(cg, ClipPlace(cg, A.name) + 1,
                                              ClipPlace(cg, B.name) - 1)
                        IN  IF B.timelineIn # A.timelineOut + 1
                            THEN GapOf(between,
                                       B.timelineIn - A.timelineOut - 1)
                            ELSE between = <<>>

\* C2: every Transition sits next to the Clip of the item it was emitted
\* for (a fade-in right in front of it, a fade-out or dissolve right behind
\* it), however many children the track already had, and the Clips keep the
\* order of the host items.
C2_TransitionAdjacent ==
    \A pair \in TrackPairs :
        LET host     == pair[1]
            children == pair[2]
            clips    == SelectSeq(children, LAMBDA c : c.type = "Clip")
            q        == Qualifying(host)
        IN  /\ \A i \in 1..Len(children) :
                children[i].type = "Transition" =>
                    IF children[i].name = "kFadeIn"
                    THEN /\ i + 1 <= Len(children)
                         /\ children[i + 1].type = "Clip"
                         /\ host[children[i + 1].name].inTransition.alignment
                                = "kFadeIn"
                    ELSE /\ i - 1 >= 1
                         /\ children[i - 1].type = "Clip"
                         /\ host[children[i - 1].name].outTransition.alignment
                                = children[i].name
            /\ Len(clips) = Len(q)
            /\ \A k \in 1..Len(clips) : clips[k].name = q[k].name

\* C10: in every track the first Clip is that of the first qualifying item,
\* with exactly one Gap of timelineIn frames in front of it when its
\* timelineIn is > 0 and no Gap when it is 0, whatever items that are no
\* clips precede it and whatever the earlier tracks held; add_tracks does
\* not raise.
C10_FirstClipGap ==
    /\ pc # "UnboundLocalError"
    /\ \A pair \in TrackPairs :
        LET q  == Qualifying(pair[1])
            cg == ClipsAndGaps(pair[2])
        IN  q # <<>> =>
                /\ HasClip(cg, q[1].name)
                /\ LET before == SubSeq(cg, 1, ClipPlace(cg, q[1].name) - 1)
                   IN  IF q[1].timelineIn > 0
                       THEN GapOf(before, q[1].timelineIn)
                       ELSE before = <<>>

---------------------------------------------------------------------------
(* Claims about finishTask *)

\* C8: when a step of the write path fails (resolving the export path,
\* creating the directory, writing the file) exactly one task error is
\* recorded, naming the attempted output path and the cause, no exception
\* leaves finishTask, and the base task's finishTask still runs.
C8_WriteFailureReported ==
    /\ pc # "escaped"
    /\ pc = "finished" /\ task.exc # "None" =>
        /\ task.finished
        /\ Len(task.errors) = 1
        /\ task.errors[1].e = task.exc
        /\ task.errors[1].f = WithExtension(task.path)

====
